---- MODULE Spec2Model ----
(***************************************************************************)
(* Model of StreamStatus.go: the webhook handler eventsubStatus, the sync  *)
(* cycle (getRepo, readFile, updateStreamStatus, writefile, gitAdd,        *)
(* gitCommit, gitPush) and the startup in main.                            *)
(*                                                                         *)
(* Text (index.md, entity names, marker rows) is a sequence of one-rune    *)
(* strings; strings.Contains / strings.Replace / strings.ToLower are       *)
(* computed on those sequences.                                            *)
(***************************************************************************)
EXTENDS Integers, Sequences, FiniteSets, TLC

(***************************************************************************)
(* Bounds                                                                  *)
(***************************************************************************)
\* lines of a document drawn for the status updater
MaxLines == 3
\* events applied in a row to one document by the status updater
MaxEvents == 2
\* webhook deliveries in one run; net/http serves each in a goroutine of its
\* own, so they may overlap in any way
MaxDeliveries == 1
\* clone, open, pull, write, stage, commit and push failures in one run
MaxFailures == 1

(***************************************************************************)
(* package strings                                                         *)
(***************************************************************************)
Upper ==
  <<"A","B","C","D","E","F","G","H","I","J","K","L","M",
    "N","O","P","Q","R","S","T","U","V","W","X","Y","Z">>

Lower ==
  <<"a","b","c","d","e","f","g","h","i","j","k","l","m",
    "n","o","p","q","r","s","t","u","v","w","x","y","z">>

LowerChar(c) ==
  IF \E i \in 1..Len(Upper) : Upper[i] = c
    THEN Lower[CHOOSE i \in 1..Len(Upper) : Upper[i] = c]
    ELSE c

\* strings.ToLower
ToLower(t) == [i \in 1..Len(t) |-> LowerChar(t[i])]

\* t has p at (1-based) position i
MatchAt(t, p, i) ==
  /\ i + Len(p) - 1 <= Len(t)
  /\ \A k \in 1..Len(p) : t[i + k - 1] = p[k]

\* strings.Index, 1-based; 0 when p does not occur in t
Index(t, p) ==
  IF \E i \in 1..(Len(t) - Len(p) + 1) : MatchAt(t, p, i)
    THEN CHOOSE i \in 1..(Len(t) - Len(p) + 1) :
           /\ MatchAt(t, p, i)
           /\ \A j \in 1..(i - 1) : ~MatchAt(t, p, j)
    ELSE 0

\* strings.Contains
Contains(t, p) == Index(t, p) # 0

\* strings.Replace(t, old, new, -1)
RECURSIVE ReplaceEvery(_, _, _)
ReplaceEvery(t, old, new) ==
  LET i == IF Len(old) = 0 THEN 0 ELSE Index(t, old) IN
    IF i = 0 THEN t
    ELSE SubSeq(t, 1, i - 1) \o new
           \o ReplaceEvery(SubSeq(t, i + Len(old), Len(t)), old, new)

\* strings.Replace(t, old, new, 1)
Replace1(t, old, new) ==
  LET i == Index(t, old) IN
    IF i = 0 THEN t
    ELSE SubSeq(t, 1, i - 1) \o new \o SubSeq(t, i + Len(old), Len(t))

\* number of (possibly overlapping) occurrences of p in t
Count(t, p) == Cardinality({i \in 1..(Len(t) - Len(p) + 1) : MatchAt(t, p, i)})

(***************************************************************************)
(* The two marker rows                                                     *)
(***************************************************************************)
\* the backtick rune (U+0060)
Backtick == "U+0060"

\* the online glyph, rune U+1F7E2
GreenCircle == "U+1F7E2"

\* the offline placeholder &nbsp; followed by space, bar, space, backtick
OfflinePrefix == <<"&","n","b","s","p",";"," ","|"," ",Backtick>>

\* the online glyph (rune U+1F7E2) followed by space, bar, space, backtick
OnlinePrefix == <<GreenCircle," ","|"," ",Backtick>>

\* fmt.Sprintf of the offline row format with name
OfflineRow(name) == OfflinePrefix \o name \o <<Backtick>>

\* fmt.Sprintf of the online row format with name
OnlineRow(name) == OnlinePrefix \o name \o <<Backtick>>

(***************************************************************************)
(* updateStreamStatus                                                      *)
(***************************************************************************)
\* lines 168-172: the offline row searched for by an online event
offlineTextSearch(streamer, text) ==
  IF Contains(text, streamer)
    THEN OfflineRow(streamer)
    ELSE OfflineRow(ToLower(streamer))

\* lines 183-187: the online row searched for by an offline event
onlineTextSearch(streamer, text) ==
  IF Contains(text, streamer)
    THEN OnlineRow(streamer)
    ELSE OnlineRow(ToLower(streamer))

AlreadyOnline_OnlyCased(streamer, text) ==
  Contains(text, OnlineRow(streamer))

\* line 175
AlreadyOnline(streamer, text) ==
  \/ Contains(text, OnlineRow(streamer))
  \/ Contains(text, OnlineRow(ToLower(streamer)))

AlreadyOffline_OnlyCased(streamer, text) ==
  Contains(text, OfflineRow(streamer))

\* line 190
AlreadyOffline(streamer, text) ==
  \/ Contains(text, OfflineRow(streamer))
  \/ Contains(text, OfflineRow(ToLower(streamer)))

MarkOnline_InsertsWhenAbsent(streamer, text) ==
  IF Contains(text, offlineTextSearch(streamer, text))
    THEN Replace1(text, offlineTextSearch(streamer, text), OnlineRow(streamer))
    ELSE text \o OnlineRow(streamer) \o <<"\n">>

\* line 180
MarkOnline(streamer, text) ==
  Replace1(text, offlineTextSearch(streamer, text), OnlineRow(streamer))

MarkOffline_WritesLower(streamer, text) ==
  Replace1(text, onlineTextSearch(streamer, text),
           OfflineRow(ToLower(streamer)))

\* line 195
MarkOffline(streamer, text) ==
  Replace1(text, onlineTextSearch(streamer, text), OfflineRow(streamer))

\* the whole method: the new indexMdText and the returned error
updateStreamStatus(streamer, online, text) ==
  IF online
    THEN IF AlreadyOnline(streamer, text)
           THEN [text |-> text, err |-> "NoChangeNeeded"]
           ELSE [text |-> MarkOnline(streamer, text), err |-> "nil"]
    ELSE IF AlreadyOffline(streamer, text)
           THEN [text |-> text, err |-> "NoChangeNeeded"]
           ELSE [text |-> MarkOffline(streamer, text), err |-> "nil"]

(***************************************************************************)
(* Documents and entity names drawn for the status updater                 *)
(***************************************************************************)
\* an entity whose event name has mixed case, its lowercased form as an
\* entity of its own, and an unrelated entity
FooBar == <<"F","b">>
foobar == <<"f","b">>
acme == <<"x">>

Names == {FooBar, foobar, acme}

NL == <<"\n">>

\* the lines a document is made of: status rows, and a line that mentions
\* the original-case name outside a status row (a link, a heading)
Lines ==
  {OfflineRow(n) \o NL : n \in Names} \cup
  {OnlineRow(n) \o NL : n \in Names} \cup
  {<<"[">> \o FooBar \o <<"]">> \o NL}

RECURSIVE DocsOf(_)
DocsOf(k) ==
  IF k = 0 THEN {<< >>}
  ELSE LET shorter == DocsOf(k - 1) IN
         shorter \cup {l \o d : l \in Lines, d \in shorter}

Docs == DocsOf(MaxLines)

(***************************************************************************)
(* Configuration, requests and repository contents drawn for the server    *)
(***************************************************************************)
\* a URL is the sequence of its slash-free chunks and its slashes
DefaultUrl ==
  <<"https:", "/", "/", "github.com", "/", "infosecstreams", "/",
    "infosecstreams.github.io">>

CustomUrl ==
  <<"https:", "/", "/", "github.com", "/", "Douile", "/", "streams">>

\* the environment: SS_GH_REPO by value (empty when unset), the three
\* credentials by whether they are set
Envs ==
  [SS_GH_REPO : {<< >>, CustomUrl},
   SS_USERNAME : BOOLEAN, SS_TOKEN : BOOLEAN, SS_SECRETKEY : BOOLEAN]


\* the goroutines of the deliveries
Handlers == 1..MaxDeliveries

EventNames == {FooBar, acme}

\* a webhook request: whether its body can be read, whether the signature
\* header matches the body, whether the body is JSON, and the decoded
\* challenge, subscription.type and event.broadcaster_user_name
Request(body, sig, challenge, type, name) ==
  [body |-> body, sig |-> sig, challenge |-> challenge, type |-> type,
   name |-> name]

\* the deliveries drawn: a body that cannot be read, an unsigned event, a
\* signed body that is not JSON, challenges with and without an event type,
\* a type the handler does not know, and the events of two entities
Requests ==
  {Request("unreadable", FALSE, "", "", << >>),
   Request("json", FALSE, "", "stream.online", FooBar),
   Request("malformed", TRUE, "", "", << >>),
   Request("json", TRUE, "xyz123", "stream.online", FooBar),
   Request("json", TRUE, "xyz123", "", << >>),
   Request("json", TRUE, "", "channel.follow", acme)} \cup
  {Request("json", TRUE, "", type, name) :
     type \in {"stream.online", "stream.offline"}, name \in EventNames}

NoRequest ==
  [body |-> "none", sig |-> FALSE, challenge |-> "", type |-> "",
   name |-> << >>]

NoResponse == [status |-> 0, body |-> ""]

\* the index.md of the remote repository when the server starts
RepoDocs ==
  {OfflineRow(foobar) \o NL,
   <<"[">> \o FooBar \o <<"]">> \o NL \o OnlineRow(FooBar) \o NL
     \o OfflineRow(acme) \o NL}

NoFile == [exists |-> FALSE, text |-> << >>]

FileOf(text) == [exists |-> TRUE, text |-> text]

(***************************************************************************)
(* State                                                                   *)
(***************************************************************************)
VARIABLES
  uStreamer,  \* status updater: s.streamer
  uDoc0,      \* status updater: the document before the first event
  uText,      \* status updater: s.indexMdText
  uLog,       \* status updater: one record per call of updateStreamStatus
  env,        \* the environment variables main reads
  process,    \* starting, listening, fatal (log.Fatalln), panicked, exited
  s,          \* the StreamersRepo shared by all requests
  disk,       \* the clone directory and its index.md
  git,        \* the local repository: staged index.md, commits, pushed ones
  remote,     \* index.md at the head of origin when the server starts
  pc,         \* per handler: position in eventsubStatus
  req,        \* per handler: the request being served
  resp,       \* per handler: what was written to the ResponseWriter
  ops,        \* per handler: repository operations of the cycle, in order
  cycle,      \* per handler: what readFile returned to the cycle and what
              \* updateStreamStatus was called with and left
  failures    \* number of failed repository operations so far

uvars == <<uStreamer, uDoc0, uText, uLog>>

svars ==
  <<env, process, s, disk, git, remote, pc, req, resp, ops, cycle, failures>>

vars == <<uStreamer, uDoc0, uText, uLog,
          env, process, s, disk, git, remote, pc, req, resp, ops, cycle,
          failures>>

\* a cycle that has read nothing and updated nothing yet
NoCycle == [read |-> << >>, streamer |-> << >>, online |-> FALSE,
            text |-> << >>]

\* the server part while the status updater is exercised on its own
ServerIdle ==
  /\ env = [SS_GH_REPO |-> << >>, SS_USERNAME |-> FALSE, SS_TOKEN |-> FALSE,
            SS_SECRETKEY |-> FALSE]
  /\ process = "starting"
  /\ s = [auth |-> FALSE, indexFilePath |-> << >>, indexMdText |-> << >>,
          online |-> FALSE, repo |-> "nil", repoPath |-> << >>,
          streamer |-> << >>, url |-> << >>]
  /\ disk = [dir |-> FALSE, file |-> NoFile]
  /\ git = [staged |-> << >>, commits |-> << >>, pushed |-> 0]
  /\ remote = << >>
  /\ pc = [p \in Handlers |-> "idle"]
  /\ req = [p \in Handlers |-> NoRequest]
  /\ resp = [p \in Handlers |-> NoResponse]
  /\ ops = [p \in Handlers |-> << >>]
  /\ cycle = [p \in Handlers |-> NoCycle]
  /\ failures = 0

\* the status updater part while the server runs
UpdaterIdle ==
  /\ uStreamer = << >>
  /\ uDoc0 = << >>
  /\ uText = << >>
  /\ uLog = << >>

(***************************************************************************)
(* Status updater on its own: a document and an entity are drawn, then     *)
(* online/offline events for that entity are applied one at a time.        *)
(***************************************************************************)
UInit ==
  /\ uStreamer \in Names
  /\ uDoc0 \in Docs
  /\ uText = uDoc0
  /\ uLog = << >>
  /\ ServerIdle

UApply(online) ==
  /\ Len(uLog) < MaxEvents
  /\ LET r == updateStreamStatus(uStreamer, online, uText) IN
       /\ uText' = r.text
       /\ uLog' = Append(uLog, [online |-> online, before |-> uText,
                                after |-> r.text, err |-> r.err])
  /\ UNCHANGED <<uStreamer, uDoc0>>
  /\ UNCHANGED svars

UOnline == UApply(TRUE)

UOffline == UApply(FALSE)

UNext == UOnline \/ UOffline

USpec == UInit /\ [][UNext]_vars

(***************************************************************************)
(* main                                                                    *)
(***************************************************************************)
\* position of the first sep in t, 0 when there is none
FirstSep(t, sep) ==
  IF \E i \in 1..Len(t) : t[i] = sep
    THEN CHOOSE i \in 1..Len(t) :
           t[i] = sep /\ \A j \in 1..(i - 1) : t[j] # sep
    ELSE 0

\* strings.Split(t, sep): the empty string splits into one empty string
RECURSIVE Split(_, _)
Split(t, sep) ==
  LET i == FirstSep(t, sep) IN
    IF i = 0 THEN <<t>>
    ELSE <<SubSeq(t, 1, i - 1)>> \o Split(SubSeq(t, i + 1, Len(t)), sep)

\* lines 338-342: repoUrl is assigned only when SS_GH_REPO is unset
RepoUrl(e) == IF Len(e.SS_GH_REPO) = 0 THEN DefaultUrl ELSE << >>

\* line 347
CredentialsMissing(e) == ~e.SS_USERNAME \/ ~e.SS_TOKEN \/ ~e.SS_SECRETKEY

\* lines 336-376: index [4] of the split URL panics when it is out of range,
\* log.Fatalln ends the process when a credential is missing, otherwise the
\* StreamersRepo is built and the server listens
Main ==
  /\ process = "starting"
  /\ LET repoUrl == RepoUrl(env)
         parts == Split(repoUrl, "/")
     IN IF Len(parts) < 5
          THEN process' = "panicked" /\ UNCHANGED s
          ELSE IF CredentialsMissing(env)
            THEN process' = "fatal" /\ UNCHANGED s
            ELSE /\ process' = "listening"
                 /\ s' = [s EXCEPT !.auth = TRUE,
                                   !.indexFilePath =
                                      parts[5] \o <<"/", "index.md">>,
                                   !.repoPath = parts[5],
                                   !.url = repoUrl]
  /\ UNCHANGED <<env, disk, git, remote, pc, req, resp, ops, failures, cycle>>
  /\ UNCHANGED uvars

(***************************************************************************)
(* eventsubStatus, up to the acknowledgment                                *)
(***************************************************************************)
\* line 375: the HTTP layer calls the handler with a request, once per
\* goroutine
Deliver(p) ==
  /\ process = "listening"
  /\ pc[p] = "idle"
  /\ \E r \in Requests : req' = [req EXCEPT ![p] = r]
  /\ pc' = [pc EXCEPT ![p] = "handle"]
  /\ UNCHANGED <<env, process, s, disk, git, remote, resp, ops, failures, cycle>>
  /\ UNCHANGED uvars

Verified_Always(r) == TRUE

\* line 278: helix.VerifyEventSubNotification
Verified(r) == r.sig

IsChallenge_AfterTypes(r) ==
  r.challenge # "" /\ r.type \notin {"stream.online", "stream.offline"}

\* line 295
IsChallenge(r) == r.challenge # ""

\* the handler returns without touching anything
Return(p) ==
  /\ pc' = [pc EXCEPT ![p] = "done"]
  /\ UNCHANGED <<env, process, s, disk, git, remote, req, resp, ops, failures, cycle>>
  /\ UNCHANGED uvars

\* lines 270-274
ReadFail(p) ==
  /\ process = "listening"
  /\ pc[p] = "handle"
  /\ req[p].body = "unreadable"
  /\ Return(p)

\* lines 278-280
VerifyFail(p) ==
  /\ process = "listening"
  /\ pc[p] = "handle"
  /\ req[p].body # "unreadable"
  /\ ~Verified(req[p])
  /\ Return(p)

\* lines 287-292
DecodeFail(p) ==
  /\ process = "listening"
  /\ pc[p] = "handle"
  /\ req[p].body = "malformed"
  /\ Verified(req[p])
  /\ Return(p)

\* lines 295-298: w.Write without WriteHeader sends status 200
Challenge(p) ==
  /\ process = "listening"
  /\ pc[p] = "handle"
  /\ req[p].body = "json"
  /\ Verified(req[p])
  /\ IsChallenge(req[p])
  /\ resp' = [resp EXCEPT ![p] = [status |-> 200, body |-> req[p].challenge]]
  /\ pc' = [pc EXCEPT ![p] = "done"]
  /\ UNCHANGED <<env, process, s, disk, git, remote, req, ops, failures, cycle>>
  /\ UNCHANGED uvars

Ack_Deferred(p) ==
  /\ process = "listening"
  /\ pc[p] = "handle"
  /\ req[p].body = "json"
  /\ Verified(req[p])
  /\ ~IsChallenge(req[p])
  /\ req[p].type \in {"stream.offline", "stream.online"}
  /\ pc' = [pc EXCEPT ![p] = "setStreamer"]
  /\ UNCHANGED <<env, process, s, disk, git, remote, req, resp, ops, failures, cycle>>
  /\ UNCHANGED uvars

\* lines 300-305 and 315-320: w.WriteHeader(200); w.Write("ok")
Ack(p) ==
  /\ process = "listening"
  /\ pc[p] = "handle"
  /\ req[p].body = "json"
  /\ Verified(req[p])
  /\ ~IsChallenge(req[p])
  /\ req[p].type \in {"stream.offline", "stream.online"}
  /\ resp' = [resp EXCEPT ![p] = [status |-> 200, body |-> "ok"]]
  /\ pc' = [pc EXCEPT ![p] = "setStreamer"]
  /\ UNCHANGED <<env, process, s, disk, git, remote, req, ops, failures, cycle>>
  /\ UNCHANGED uvars

\* lines 330-332
Unrecognized(p) ==
  /\ process = "listening"
  /\ pc[p] = "handle"
  /\ req[p].body = "json"
  /\ Verified(req[p])
  /\ ~IsChallenge(req[p])
  /\ req[p].type \notin {"stream.offline", "stream.online"}
  /\ Return(p)

\* lines 306 and 321
SetStreamer(p) ==
  /\ process = "listening"
  /\ pc[p] = "setStreamer"
  /\ s' = [s EXCEPT !.streamer = req[p].name]
  /\ pc' = [pc EXCEPT ![p] = "setOnline"]
  /\ UNCHANGED <<env, process, disk, git, remote, req, resp, ops, failures, cycle>>
  /\ UNCHANGED uvars

\* lines 307 and 322
SetOnline(p) ==
  /\ process = "listening"
  /\ pc[p] = "setOnline"
  /\ s' = [s EXCEPT !.online = (req[p].type = "stream.online")]
  /\ pc' = [pc EXCEPT ![p] = "clone"]
  /\ UNCHANGED <<env, process, disk, git, remote, req, resp, ops, failures, cycle>>
  /\ UNCHANGED uvars

(***************************************************************************)
(* updateMarkdown, updateRepo, pushRepo                                    *)
(***************************************************************************)
Outcome(ok) == IF ok THEN "ok" ELSE "failed"

Did(p, op, outcome) == ops' = [ops EXCEPT ![p] = Append(@, <<op, outcome>>)]

\* an operation of an external collaborator (go-git, the file system) succeeds
\* or fails
MayBe(ok) ==
  /\ ok \/ failures < MaxFailures
  /\ failures' = IF ok THEN failures ELSE failures + 1

\* index.md at the head of origin
RemoteHead ==
  IF git.pushed = 0 THEN remote ELSE git.commits[git.pushed].text

\* lines 214-217: an error of getRepo is logged and updateMarkdown goes on
AfterGetRepoError == "read"

\* lines 117-130: PlainClone into a directory that holds no repository
CloneOk(p) ==
  /\ process = "listening"
  /\ pc[p] = "clone"
  /\ ~disk.dir
  /\ disk' = [dir |-> TRUE, file |-> FileOf(RemoteHead)]
  /\ git' = [git EXCEPT !.staged = RemoteHead]
  /\ s' = [s EXCEPT !.repo = "repo"]
  /\ Did(p, "clone", "ok")
  /\ pc' = [pc EXCEPT ![p] = "read"]
  /\ UNCHANGED <<env, process, remote, req, resp, failures, cycle>>
  /\ UNCHANGED uvars

\* lines 117-137: PlainClone refuses a directory that holds a repository
CloneExists(p) ==
  /\ process = "listening"
  /\ pc[p] = "clone"
  /\ disk.dir
  /\ Did(p, "clone", "exists")
  /\ pc' = [pc EXCEPT ![p] = "open"]
  /\ UNCHANGED <<env, process, s, disk, git, remote, req, resp, failures, cycle>>
  /\ UNCHANGED uvars

\* lines 117-137: PlainClone fails for another reason (network, credentials)
\* and leaves no directory behind
CloneFail(p) ==
  /\ process = "listening"
  /\ pc[p] = "clone"
  /\ ~disk.dir
  /\ MayBe(FALSE)
  /\ Did(p, "clone", "failed")
  /\ pc' = [pc EXCEPT ![p] = AfterGetRepoError]
  /\ UNCHANGED <<env, process, s, disk, git, remote, req, resp, cycle>>
  /\ UNCHANGED uvars

\* lines 138-141
Open(p) ==
  /\ process = "listening"
  /\ pc[p] = "open"
  /\ \E ok \in BOOLEAN :
       /\ MayBe(ok)
       /\ Did(p, "open", Outcome(ok))
       /\ pc' = [pc EXCEPT ![p] = IF ok THEN "pull" ELSE AfterGetRepoError]
  /\ UNCHANGED <<env, process, s, disk, git, remote, req, resp, cycle>>
  /\ UNCHANGED uvars

\* lines 142-153: a forced pull that succeeds sets the working copy to the
\* head of origin, one that fails leaves it as it is; the result of w.Pull
\* is dropped and getRepo returns nil either way
Pull(p) ==
  /\ process = "listening"
  /\ pc[p] = "pull"
  /\ \E ok \in BOOLEAN :
       /\ MayBe(ok)
       /\ disk' = IF ok THEN [disk EXCEPT !.file = FileOf(RemoteHead)]
                        ELSE disk
       /\ git' = IF ok THEN [git EXCEPT !.staged = RemoteHead] ELSE git
       /\ Did(p, "pull", Outcome(ok))
  /\ s' = [s EXCEPT !.repo = "repo"]
  /\ pc' = [pc EXCEPT ![p] = "read"]
  /\ UNCHANGED <<env, process, remote, req, resp, cycle>>
  /\ UNCHANGED uvars

\* lines 201-208 and 219
ReadFileOk(p) ==
  /\ process = "listening"
  /\ pc[p] = "read"
  /\ disk.file.exists
  /\ s' = [s EXCEPT !.indexMdText = disk.file.text]
  /\ cycle' = [cycle EXCEPT ![p].read = disk.file.text]
  /\ Did(p, "read", "ok")
  /\ pc' = [pc EXCEPT ![p] = "update"]
  /\ UNCHANGED <<env, process, disk, git, remote, req, resp, failures>>
  /\ UNCHANGED uvars

\* lines 201-204 and 219-223: os.Exit(-1)
ReadFileFail(p) ==
  /\ process = "listening"
  /\ pc[p] = "read"
  /\ ~disk.file.exists
  /\ Did(p, "read", "failed")
  /\ process' = "exited"
  /\ UNCHANGED <<env, s, disk, git, remote, pc, req, resp, failures, cycle>>
  /\ UNCHANGED uvars

AfterUpdate_AlwaysWrites(err) == "write"

\* lines 226-232 and 309-314: NoChangeNeededError ends the cycle
AfterUpdate(err) == IF err = "NoChangeNeeded" THEN "done" ELSE "write"

\* line 225, with a cycle that ends when the text came back as it went in
Update_StopsWhenUnchanged(p) ==
  /\ process = "listening"
  /\ pc[p] = "update"
  /\ LET r == updateStreamStatus(s.streamer, s.online, s.indexMdText) IN
       /\ s' = [s EXCEPT !.indexMdText = r.text]
       /\ cycle' = [cycle EXCEPT ![p].streamer = s.streamer,
                                  ![p].online = s.online,
                                  ![p].text = r.text]
       /\ Did(p, "update", r.err)
       /\ pc' = [pc EXCEPT ![p] = IF r.text = s.indexMdText
                                    THEN "done" ELSE AfterUpdate(r.err)]
  /\ UNCHANGED <<env, process, disk, git, remote, req, resp, failures>>
  /\ UNCHANGED uvars

\* line 225
Update(p) ==
  /\ process = "listening"
  /\ pc[p] = "update"
  /\ LET r == updateStreamStatus(s.streamer, s.online, s.indexMdText) IN
       /\ s' = [s EXCEPT !.indexMdText = r.text]
       /\ cycle' = [cycle EXCEPT ![p].streamer = s.streamer,
                                  ![p].online = s.online,
                                  ![p].text = r.text]
       /\ Did(p, "update", r.err)
       /\ pc' = [pc EXCEPT ![p] = AfterUpdate(r.err)]
  /\ UNCHANGED <<env, process, disk, git, remote, req, resp, failures>>
  /\ UNCHANGED uvars

\* lines 157-160 and 232-236, with the change of the event applied to the
\* file as it is on disk instead of the shared text written whole
Write_OntoFile(p) ==
  /\ process = "listening"
  /\ pc[p] = "write"
  /\ \E ok \in BOOLEAN :
       /\ MayBe(ok)
       /\ disk' = IF ok /\ disk.file.exists
                    THEN [disk EXCEPT !.file =
                            FileOf(updateStreamStatus(req[p].name,
                                     req[p].type = "stream.online",
                                     disk.file.text).text)]
                    ELSE disk
       /\ Did(p, "write", Outcome(ok))
  /\ pc' = [pc EXCEPT ![p] = "add"]
  /\ UNCHANGED <<env, process, s, git, remote, req, resp, cycle>>
  /\ UNCHANGED uvars

\* lines 157-160 and 232-236
Write(p) ==
  /\ process = "listening"
  /\ pc[p] = "write"
  /\ \E ok \in BOOLEAN :
       /\ MayBe(ok)
       /\ disk' = IF ok THEN [disk EXCEPT !.file = FileOf(s.indexMdText)]
                        ELSE disk
       /\ Did(p, "write", Outcome(ok))
  /\ pc' = [pc EXCEPT ![p] = "add"]
  /\ UNCHANGED <<env, process, s, git, remote, req, resp, cycle>>
  /\ UNCHANGED uvars

\* lines 88-98 and 241-244: s.repo.Worktree() on a nil repository panics and
\* net/http ends the request
AddPanic(p) ==
  /\ process = "listening"
  /\ pc[p] = "add"
  /\ s.repo = "nil"
  /\ Did(p, "add", "panic")
  /\ pc' = [pc EXCEPT ![p] = "panicked"]
  /\ UNCHANGED <<env, process, s, disk, git, remote, req, resp, failures, cycle>>
  /\ UNCHANGED uvars

\* lines 88-98 and 241-244
Add(p) ==
  /\ process = "listening"
  /\ pc[p] = "add"
  /\ s.repo # "nil"
  /\ \E ok \in BOOLEAN :
       /\ MayBe(ok)
       /\ git' = IF ok /\ disk.file.exists
                   THEN [git EXCEPT !.staged = disk.file.text]
                   ELSE git
       /\ Did(p, "add", Outcome(ok /\ disk.file.exists))
  /\ pc' = [pc EXCEPT ![p] = "commit"]
  /\ UNCHANGED <<env, process, s, disk, remote, req, resp, cycle>>
  /\ UNCHANGED uvars

\* lines 58-85 and 246-249: the message names s.streamer and s.online
Commit(p) ==
  /\ process = "listening"
  /\ pc[p] = "commit"
  /\ \E ok \in BOOLEAN :
       /\ MayBe(ok)
       /\ git' = IF ok
                   THEN [git EXCEPT !.commits =
                           Append(@, [by |-> p,
                                      streamer |-> s.streamer,
                                      online |-> s.online,
                                      text |-> git.staged])]
                   ELSE git
       /\ Did(p, "commit", Outcome(ok))
  /\ pc' = [pc EXCEPT ![p] = "push"]
  /\ UNCHANGED <<env, process, s, disk, remote, req, resp, cycle>>
  /\ UNCHANGED uvars

\* lines 45-55 and 253-258, with a push that is tried again after it failed
Push_Retries(p) ==
  /\ process = "listening"
  /\ pc[p] = "push"
  /\ \E ok \in BOOLEAN :
       /\ MayBe(ok)
       /\ git' = IF ok THEN [git EXCEPT !.pushed = Len(git.commits)] ELSE git
       /\ Did(p, "push", Outcome(ok))
       /\ pc' = [pc EXCEPT ![p] = IF ok THEN "done" ELSE "push"]
  /\ UNCHANGED <<env, process, s, disk, remote, req, resp, cycle>>
  /\ UNCHANGED uvars

\* lines 45-55 and 253-258
Push(p) ==
  /\ process = "listening"
  /\ pc[p] = "push"
  /\ \E ok \in BOOLEAN :
       /\ MayBe(ok)
       /\ git' = IF ok THEN [git EXCEPT !.pushed = Len(git.commits)] ELSE git
       /\ Did(p, "push", Outcome(ok))
  /\ pc' = [pc EXCEPT ![p] = "done"]
  /\ UNCHANGED <<env, process, s, disk, remote, req, resp, cycle>>
  /\ UNCHANGED uvars

(***************************************************************************)
(* The server                                                              *)
(***************************************************************************)
\* the process is started with some environment; the clone directory may be
\* left from an earlier run, and origin may have moved on since
Init ==
  /\ env \in Envs
  /\ process = "starting"
  /\ s = [auth |-> FALSE, indexFilePath |-> << >>, indexMdText |-> << >>,
          online |-> FALSE, repo |-> "nil", repoPath |-> << >>,
          streamer |-> << >>, url |-> << >>]
  /\ remote \in RepoDocs
  /\ \/ /\ disk = [dir |-> FALSE, file |-> NoFile]
        /\ git = [staged |-> << >>, commits |-> << >>, pushed |-> 0]
     \/ \E local \in RepoDocs :
          /\ disk = [dir |-> TRUE, file |-> FileOf(local)]
          /\ git = [staged |-> local, commits |-> << >>, pushed |-> 0]
  /\ pc = [p \in Handlers |-> "idle"]
  /\ req = [p \in Handlers |-> NoRequest]
  /\ resp = [p \in Handlers |-> NoResponse]
  /\ ops = [p \in Handlers |-> << >>]
  /\ cycle = [p \in Handlers |-> NoCycle]
  /\ failures = 0
  /\ UpdaterIdle

Next ==
  \/ Main
  \/ \E p \in Handlers : Deliver(p)
  \/ \E p \in Handlers : ReadFail(p)
  \/ \E p \in Handlers : VerifyFail(p)
  \/ \E p \in Handlers : DecodeFail(p)
  \/ \E p \in Handlers : Challenge(p)
  \/ \E p \in Handlers : Ack(p)
  \/ \E p \in Handlers : Unrecognized(p)
  \/ \E p \in Handlers : SetStreamer(p)
  \/ \E p \in Handlers : SetOnline(p)
  \/ \E p \in Handlers : CloneOk(p)
  \/ \E p \in Handlers : CloneExists(p)
  \/ \E p \in Handlers : CloneFail(p)
  \/ \E p \in Handlers : Open(p)
  \/ \E p \in Handlers : Pull(p)
  \/ \E p \in Handlers : ReadFileOk(p)
  \/ \E p \in Handlers : ReadFileFail(p)
  \/ \E p \in Handlers : Update(p)
  \/ \E p \in Handlers : Write(p)
  \/ \E p \in Handlers : AddPanic(p)
  \/ \E p \in Handlers : Add(p)
  \/ \E p \in Handlers : Commit(p)
  \/ \E p \in Handlers : Push(p)

Spec == Init /\ [][Next]_vars

(***************************************************************************)
(* The server with two deliveries in flight                                *)
(***************************************************************************)
\* lines 375-376: net/http serves each delivery in a goroutine of its own;
\* two deliveries are in flight
Racers == {1, 2}

RaceInit ==
  /\ env \in Envs
  /\ process = "starting"
  /\ s = [auth |-> FALSE, indexFilePath |-> << >>, indexMdText |-> << >>,
          online |-> FALSE, repo |-> "nil", repoPath |-> << >>,
          streamer |-> << >>, url |-> << >>]
  /\ remote \in RepoDocs
  /\ \/ /\ disk = [dir |-> FALSE, file |-> NoFile]
        /\ git = [staged |-> << >>, commits |-> << >>, pushed |-> 0]
     \/ \E local \in RepoDocs :
          /\ disk = [dir |-> TRUE, file |-> FileOf(local)]
          /\ git = [staged |-> local, commits |-> << >>, pushed |-> 0]
  /\ pc = [p \in Racers |-> "idle"]
  /\ req = [p \in Racers |-> NoRequest]
  /\ resp = [p \in Racers |-> NoResponse]
  /\ ops = [p \in Racers |-> << >>]
  /\ cycle = [p \in Racers |-> NoCycle]
  /\ failures = 0
  /\ UpdaterIdle

RaceNext ==
  \/ Main
  \/ \E p \in Racers : Deliver(p)
  \/ \E p \in Racers : ReadFail(p)
  \/ \E p \in Racers : VerifyFail(p)
  \/ \E p \in Racers : DecodeFail(p)
  \/ \E p \in Racers : Challenge(p)
  \/ \E p \in Racers : Ack(p)
  \/ \E p \in Racers : Unrecognized(p)
  \/ \E p \in Racers : SetStreamer(p)
  \/ \E p \in Racers : SetOnline(p)
  \/ \E p \in Racers : CloneOk(p)
  \/ \E p \in Racers : CloneExists(p)
  \/ \E p \in Racers : CloneFail(p)
  \/ \E p \in Racers : Open(p)
  \/ \E p \in Racers : Pull(p)
  \/ \E p \in Racers : ReadFileOk(p)
  \/ \E p \in Racers : ReadFileFail(p)
  \/ \E p \in Racers : Update(p)
  \/ \E p \in Racers : Write(p)
  \/ \E p \in Racers : AddPanic(p)
  \/ \E p \in Racers : Add(p)
  \/ \E p \in Racers : Commit(p)
  \/ \E p \in Racers : Push(p)

RaceSpec == RaceInit /\ [][RaceNext]_vars

(***************************************************************************)
(* Vocabulary of the claims about the status updater                       *)
(***************************************************************************)
\* the case forms under which a row of the entity may be written
Forms(streamer) == {streamer, ToLower(streamer)}

HasOnlineRow(streamer, text) ==
  \E n \in Forms(streamer) : Contains(text, OnlineRow(n))

HasOfflineRow(streamer, text) ==
  \E n \in Forms(streamer) : Contains(text, OfflineRow(n))

RECURSIVE SumOver(_, _, _)
SumOver(S, streamer, text) ==
  IF S = {} THEN 0
  ELSE LET n == CHOOSE x \in S : TRUE IN
         Count(text, OnlineRow(n)) + Count(text, OfflineRow(n))
           + SumOver(S \ {n}, streamer, text)

\* number of status rows of the entity, in either state and either case form
Rows(streamer, text) == SumOver(Forms(streamer), streamer, text)

\* the document holds exactly one status row of the entity
OneRow(streamer, text) == Rows(streamer, text) = 1

Entries == 1..Len(uLog)

Pairs == 1..(Len(uLog) - 1)

\* C1: an online event on a document that already holds the entity's online
\* row (original-case or lowercased) returns NoChangeNeeded and leaves the
\* text unchanged; the same for an offline event and the offline row.
C1_Idempotent ==
  \A i \in Entries :
    LET e == uLog[i] IN
      /\ (e.online /\ HasOnlineRow(uStreamer, e.before))
           => (e.err = "NoChangeNeeded" /\ e.after = e.before)
      /\ (~e.online /\ HasOfflineRow(uStreamer, e.before))
           => (e.err = "NoChangeNeeded" /\ e.after = e.before)

\* an online event of the mixed-case entity met a document that shows it
\* online only through the lowercased row
C1_Witness ==
  \E i \in Entries :
    LET e == uLog[i] IN
      /\ uStreamer = FooBar
      /\ e.online
      /\ Contains(e.before, OnlineRow(foobar))
      /\ ~Contains(e.before, OnlineRow(FooBar))
      /\ e.err = "NoChangeNeeded"

\* entries i, i+1 are online-then-offline from an offline row, or
\* offline-then-online from an online row, on a one-row document
RoundTripAt(i) ==
  /\ OneRow(uStreamer, uLog[i].before)
  /\ \/ /\ uLog[i].online /\ ~uLog[i + 1].online
        /\ HasOfflineRow(uStreamer, uLog[i].before)
     \/ /\ ~uLog[i].online /\ uLog[i + 1].online
        /\ HasOnlineRow(uStreamer, uLog[i].before)

\* the single row is written with the name exactly as the event carries it
CasedRow(streamer, text) ==
  Contains(text, OnlineRow(streamer)) \/ Contains(text, OfflineRow(streamer))

\* C2 as stated: the round trip restores the text whichever case form the
\* original row used
C2_RoundTripAnyCase ==
  \A i \in Pairs : RoundTripAt(i) => uLog[i + 1].after = uLog[i].before

\* C2: on a document with exactly one status row of the entity, written with
\* the name as the event carries it, online-then-offline (from an offline
\* row) and offline-then-online (from an online row) restore the text exactly.
C2_RoundTripCased ==
  \A i \in Pairs :
    (RoundTripAt(i) /\ CasedRow(uStreamer, uLog[i].before))
      => uLog[i + 1].after = uLog[i].before

\* a round trip that changed the text in between and came back
C2_Witness ==
  \E i \in Pairs :
    /\ RoundTripAt(i)
    /\ CasedRow(uStreamer, uLog[i].before)
    /\ uStreamer = FooBar
    /\ uLog[i].after # uLog[i].before
    /\ uLog[i + 1].after = uLog[i].before

\* the single row of the mixed-case entity is written with the lowercased name
LowercasedRowOnly(text) ==
  /\ uStreamer = FooBar
  /\ OneRow(uStreamer, text)
  /\ ~CasedRow(uStreamer, text)

\* C3: for a mixed-case entity whose single row uses the lowercased name, an
\* online event turns the offline row into an online row and an offline event
\* turns the online row into an offline row, in every such document.
C3_CaseTolerant ==
  \A i \in Entries :
    LET e == uLog[i] IN
      /\ (LowercasedRowOnly(e.before) /\ e.online
            /\ HasOfflineRow(uStreamer, e.before))
           => /\ e.err = "nil"
              /\ HasOnlineRow(uStreamer, e.after)
              /\ ~HasOfflineRow(uStreamer, e.after)
      /\ (LowercasedRowOnly(e.before) /\ ~e.online
            /\ HasOnlineRow(uStreamer, e.before))
           => /\ e.err = "nil"
              /\ HasOfflineRow(uStreamer, e.after)
              /\ ~HasOnlineRow(uStreamer, e.after)

\* C4: on a document with exactly one status row of the entity, in offline
\* form, an online event succeeds and leaves an online row in place of the
\* offline one, and the same event again returns NoChangeNeeded and changes
\* nothing; the same with online and offline exchanged.
C4_ChangeThenNoChange ==
  \A i \in Entries :
    LET e == uLog[i] IN
      /\ (OneRow(uStreamer, e.before) /\ e.online
            /\ HasOfflineRow(uStreamer, e.before))
           => /\ e.err = "nil"
              /\ e.after = Replace1(e.before,
                             IF Contains(e.before, OfflineRow(uStreamer))
                               THEN OfflineRow(uStreamer)
                               ELSE OfflineRow(ToLower(uStreamer)),
                             OnlineRow(uStreamer))
              /\ e.after # e.before
              /\ (i + 1 \in Entries /\ uLog[i + 1].online)
                   => /\ uLog[i + 1].err = "NoChangeNeeded"
                      /\ uLog[i + 1].after = e.after
      /\ (OneRow(uStreamer, e.before) /\ ~e.online
            /\ HasOnlineRow(uStreamer, e.before))
           => /\ e.err = "nil"
              /\ e.after = Replace1(e.before,
                             IF Contains(e.before, OnlineRow(uStreamer))
                               THEN OnlineRow(uStreamer)
                               ELSE OnlineRow(ToLower(uStreamer)),
                             OfflineRow(uStreamer))
              /\ e.after # e.before
              /\ (i + 1 \in Entries /\ ~uLog[i + 1].online)
                   => /\ uLog[i + 1].err = "NoChangeNeeded"
                      /\ uLog[i + 1].after = e.after

(***************************************************************************)
(* Vocabulary of the claims about the server                               *)
(***************************************************************************)
OkResponse == [status |-> 200, body |-> "ok"]

\* positions of eventsubStatus between the acknowledgment and the return
CyclePcs ==
  {"setStreamer", "setOnline", "clone", "open", "pull", "read", "update",
   "write", "add", "commit", "push"}

\* the cycle of handler p logged operation op with that outcome
Logged(p, op, outcome) ==
  \E i \in 1..Len(ops[p]) : ops[p][i] = <<op, outcome>>

\* the cycle of handler p went into operation op, whatever came of it
Attempted(p, op) ==
  \E i \in 1..Len(ops[p]) : ops[p][i][1] = op

\* C5: a cycle whose updateStreamStatus returned NoChangeNeeded has ended
\* without a file write, a stage, a commit or a push.
C5_NoChangeStops ==
  \A p \in Handlers :
    Logged(p, "update", "NoChangeNeeded")
      => /\ pc[p] = "done"
         /\ \A op \in {"write", "add", "commit", "push"} : ~Attempted(p, op)

\* a cycle that read the document and found nothing to change
C5_Witness ==
  \E p \in Handlers :
    /\ pc[p] = "done"
    /\ Logged(p, "read", "ok")
    /\ ops[p][Len(ops[p])] = <<"update", "NoChangeNeeded">>

\* C6: whenever a handler is in its sync cycle or has logged a repository
\* operation, status 200 and body ok are already written, and they stay
\* written whatever the outcome of the operations.
C6_AckBeforeRepo ==
  \A p \in Handlers :
    (pc[p] \in CyclePcs \/ ops[p] # << >>) => resp[p] = OkResponse

\* a cycle that went through to a failed push, acknowledged all the same
C6_Witness ==
  \E p \in Handlers :
    /\ pc[p] = "done"
    /\ Logged(p, "push", "failed")
    /\ resp[p] = OkResponse

\* C7: the step that handles a verified request with a non-empty challenge
\* writes the challenge as the body, ends the handler, performs no repository
\* operation and leaves the StreamersRepo, the disk and the repository alone,
\* whatever subscription type the body carries.
C7_ChallengeEcho ==
  [][\A p \in Handlers :
       (/\ pc[p] = "handle"
        /\ pc'[p] # "handle"
        /\ req[p].body = "json"
        /\ req[p].sig
        /\ req[p].challenge # "")
         => /\ pc'[p] = "done"
            /\ resp'[p].body = req[p].challenge
            /\ ops'[p] = << >>
            /\ s' = s
            /\ disk' = disk
            /\ git' = git]_vars

\* a challenge that came with an online subscription type was echoed
C7_Witness ==
  \E p \in Handlers :
    /\ pc[p] = "done"
    /\ req[p].body = "json"
    /\ req[p].sig
    /\ req[p].challenge = "xyz123"
    /\ req[p].type = "stream.online"
    /\ resp[p].body = "xyz123"
    /\ ops[p] = << >>

\* C8: the step that handles a request whose signature does not verify ends
\* the handler with nothing written to the response, no repository operation,
\* and the StreamersRepo, the disk and the repository unchanged.
C8_InvalidSignatureDrops ==
  [][\A p \in Handlers :
       (/\ pc[p] = "handle"
        /\ pc'[p] # "handle"
        /\ req[p].body # "unreadable"
        /\ ~req[p].sig)
         => /\ pc'[p] = "done"
            /\ resp'[p] = NoResponse
            /\ ops'[p] = << >>
            /\ s' = s
            /\ disk' = disk
            /\ git' = git]_vars

\* an unsigned online event with well-formed JSON was dropped
C8_Witness ==
  \E p \in Handlers :
    /\ pc[p] = "done"
    /\ req[p].body = "json"
    /\ ~req[p].sig
    /\ req[p].challenge = ""
    /\ req[p].type = "stream.online"
    /\ resp[p] = NoResponse
    /\ ops[p] = << >>

\* C9: no failure in a sync cycle ends the process.
C9_ProcessSurvives == process # "exited"

\* the operations a cycle carried out, as opposed to tried and failed
Performed(p, i) == ops[p][i][2] \notin {"failed", "panic"}

\* C10: once getRepo has failed in a cycle for a reason other than the
\* directory holding a repository, that cycle reads no document, makes no
\* status update, writes no file, and stages, commits and pushes nothing.
C10_GetRepoFailureAborts ==
  \A p \in Handlers :
    \A i \in 1..Len(ops[p]) :
      ops[p][i] \in {<<"clone", "failed">>, <<"open", "failed">>}
        => \A j \in (i + 1)..Len(ops[p]) :
             ~(/\ ops[p][j][1] \in {"read", "update", "write", "add",
                                    "commit", "push"}
               /\ Performed(p, j))

(***************************************************************************)
(* Further claims about the sync cycle                                     *)
(***************************************************************************)
\* lines 232-236, 241-249, 254-257: the steps after the status update
Steps == <<"write", "add", "commit", "push">>

\* what follows a status update that returned nil is the steps, in their
\* order and without a repeat, as far as the cycle has come
InOrder(p) ==
  \A i \in 1..Len(ops[p]) :
    ops[p][i] = <<"update", "nil">>
      => /\ Len(ops[p]) - i <= Len(Steps)
         /\ \A k \in 1..(Len(ops[p]) - i) : ops[p][i + k][1] = Steps[k]

\* handler p has just logged a step that failed
StepFailed(p) ==
  /\ Len(ops'[p]) = Len(ops[p]) + 1
  /\ ops'[p][Len(ops'[p])][1] \in {"write", "add", "commit", "push"}
  /\ ops'[p][Len(ops'[p])][2] \in {"failed", "panic"}

\* C12: in a cycle whose status update did not return NoChangeNeeded the
\* steps come in the order write, stage, commit, push, each at most once,
\* and a step that fails leaves the written file, the staged text, the
\* commits and the pushed commits as the earlier steps made them.
C12_StepsInOrder ==
  /\ [](\A p \in Handlers : InOrder(p))
  /\ [][\A p \in Handlers : StepFailed(p) => (disk' = disk /\ git' = git)]_vars

\* a cycle wrote and staged a changed text, failed to commit and went on to
\* push: the file and the staged text are still the changed text
C12_Witness ==
  \E p \in Handlers :
    /\ pc[p] = "done"
    /\ \E i \in 1..Len(ops[p]) :
         /\ ops[p][i] = <<"update", "nil">>
         /\ Len(ops[p]) = i + 4
         /\ ops[p][i + 1] = <<"write", "ok">>
         /\ ops[p][i + 2] = <<"add", "ok">>
         /\ ops[p][i + 3] = <<"commit", "failed">>
         /\ ops[p][i + 4][1] = "push"
    /\ cycle[p].text # cycle[p].read
    /\ disk.file = FileOf(cycle[p].text)
    /\ git.staged = cycle[p].text

\* C13: a failed writefile, gitAdd or gitCommit is the last operation of its
\* cycle: no stage or commit follows a failed write or stage, no push follows
\* a failed commit.
C13_FailureAborts ==
  \A p \in Handlers :
    \A i \in 1..Len(ops[p]) :
      ops[p][i] \in {<<"write", "failed">>, <<"add", "failed">>,
                     <<"commit", "failed">>}
        => i = Len(ops[p])

\* C14: whenever getRepo has come back through the fallback path (clone
\* refused, repository opened, pull called) the pull has succeeded, and the
\* document the cycle reads next is the one at the head of origin.
C14_FallbackPulled ==
  \A p \in Handlers :
    \A i \in 1..Len(ops[p]) :
      ops[p][i][1] = "pull"
        => /\ ops[p][i][2] = "ok"
           /\ (Len(ops[p]) = i + 1 /\ ops[p][i + 1] = <<"read", "ok">>)
                => cycle[p].read = RemoteHead

\* C18, as stated: a cycle whose status update left the text as it was read
\* (the entity has no row, or the row already shows the state) attempts no
\* commit and no push.
C18_UnchangedTextStops ==
  \A p \in Handlers :
    (Attempted(p, "update") /\ cycle[p].text = cycle[p].read)
      => (~Attempted(p, "commit") /\ ~Attempted(p, "push"))

\* C18, amended: a cycle stages, commits and pushes only when its status
\* update returned nil, and every cycle whose update returned nil and that
\* has come to its end has attempted the write, the stage, the commit and
\* the push, the text being changed or not.
C18_NilProceeds ==
  \A p \in Handlers :
    /\ (\E op \in {"write", "add", "commit", "push"} : Attempted(p, op))
         => Logged(p, "update", "nil")
    /\ (Logged(p, "update", "nil") /\ pc[p] = "done")
         => \A op \in {"write", "add", "commit", "push"} : Attempted(p, op)

\* an event for an entity with no row: the text is unchanged and the cycle
\* has committed and pushed it
C18_Witness ==
  \E p \in Handlers :
    /\ pc[p] = "done"
    /\ Rows(cycle[p].streamer, cycle[p].read) = 0
    /\ cycle[p].text = cycle[p].read
    /\ Logged(p, "update", "nil")
    /\ Logged(p, "commit", "ok")
    /\ Logged(p, "push", "ok")

\* C20: with the three credentials set main comes to listen, with url the
\* value of SS_GH_REPO when that is set and the default otherwise; with a
\* credential missing main ends in log.Fatalln and never listens.
C20_Startup ==
  process # "starting"
    => IF CredentialsMissing(env)
         THEN process = "fatal"
         ELSE /\ process \in {"listening", "exited"}
              /\ s.url = IF Len(env.SS_GH_REPO) = 0 THEN DefaultUrl
                         ELSE env.SS_GH_REPO

(***************************************************************************)
(* Claims about two deliveries in flight                                   *)
(***************************************************************************)
\* the state the event of request r asks for
WantsOnline(r) == r.type = "stream.online"

\* the document shows the entity of r in the state r asks for
Reflects(r, text) ==
  IF WantsOnline(r) THEN HasOnlineRow(r.name, text)
                    ELSE HasOfflineRow(r.name, text)

\* handler p has just logged a write that succeeded
Wrote(p) ==
  /\ Len(ops'[p]) = Len(ops[p]) + 1
  /\ ops'[p][Len(ops'[p])] = <<"write", "ok">>

\* the texts the cycles have read and computed so far
CycleTexts == {cycle[x].read : x \in Racers} \cup {cycle[x].text : x \in Racers}

\* C16: a write stores the shared text whole, a text one of the cycles read
\* or computed, whatever the file holds at that moment: a change another
\* cycle wrote to the file since that text was read is gone from the file,
\* which is how one of two concurrent events comes to be lost.
C16_WritesWholeText ==
  [][\A p \in Racers :
       Wrote(p) => /\ disk'.file = FileOf(s.indexMdText)
                   /\ s.indexMdText \in CycleTexts
                   /\ \A q \in Racers :
                        Reflects(req[q], disk'.file.text)
                          <=> Reflects(req[q], s.indexMdText)]_vars

\* two verified events for two entities with one row each, neither in the
\* state its event asks for; no operation failed, each status update was
\* made for its own event and applied it, both cycles wrote and came to
\* their end, and the file shows one of the two events only
C16_Witness ==
  \E p, q \in Racers :
    /\ req[p].name # req[q].name
    /\ \A x \in {p, q} :
         /\ pc[x] = "done"
         /\ OneRow(req[x].name, remote)
         /\ ~Reflects(req[x], remote)
         /\ cycle[x].streamer = req[x].name
         /\ cycle[x].online = WantsOnline(req[x])
         /\ Reflects(req[x], cycle[x].text)
         /\ Logged(x, "write", "ok")
         /\ Logged(x, "push", "ok")
    /\ failures = 0
    /\ Reflects(req[p], disk.file.text)
    /\ ~Reflects(req[q], disk.file.text)

\* C17: in every interleaving the entity and the state a cycle's status
\* update used, and those its commit message names, are the ones of the
\* event that started the cycle.
C17_Isolation ==
  /\ \A p \in Racers :
       Attempted(p, "update")
         => /\ cycle[p].streamer = req[p].name
            /\ cycle[p].online = WantsOnline(req[p])
  /\ \A i \in 1..Len(git.commits) :
       LET c == git.commits[i] IN
         /\ c.streamer = req[c.by].name
         /\ c.online = WantsOnline(req[c.by])

(***************************************************************************)
(* Further claims about the status updater                                 *)
(***************************************************************************)
\* the call of updateStreamStatus made last; every call is the last one in
\* the state it leads to
LastCall == uLog[Len(uLog)]

\* C11: on a document that holds neither the online nor the offline row of
\* the entity, in either case form, an online and an offline event return
\* nil and leave the text as it was.
C11_AbsentEntityUnchanged ==
  (uLog # << >> /\ Rows(uStreamer, LastCall.before) = 0)
    => (LastCall.err = "nil" /\ LastCall.after = LastCall.before)

\* an online event met a document that has rows, none of them of the entity
C11_Witness ==
  \E i \in Entries :
    LET e == uLog[i] IN
      /\ e.online
      /\ uStreamer = acme
      /\ Rows(acme, e.before) = 0
      /\ Rows(FooBar, e.before) > 0
      /\ e.err = "nil"
      /\ e.after = e.before

\* the names under which one entity may be written: those equal up to case
SameEntity(n) == {m \in Names : ToLower(m) = ToLower(n)}

RECURSIVE RowsOfForms(_, _)
RowsOfForms(S, text) ==
  IF S = {} THEN 0
  ELSE LET n == CHOOSE x \in S : TRUE IN
         Count(text, OnlineRow(n)) + Count(text, OfflineRow(n))
           + RowsOfForms(S \ {n}, text)

\* number of status rows of the entity named n, whatever the case and state
EntityRows(n, text) == RowsOfForms(SameEntity(n), text)

\* after is before with the first occurrence of one row of the event's entity
\* replaced by the row of the new state
OneRowFlipped(e) ==
  \E n \in Forms(uStreamer) :
    \/ /\ e.online
       /\ e.after = Replace1(e.before, OfflineRow(n), OnlineRow(uStreamer))
    \/ /\ ~e.online
       /\ e.after = Replace1(e.before, OnlineRow(n), OfflineRow(uStreamer))

\* C15: one call changes at most one status row: the text is left as it was
\* or differs in the first occurrence of the searched row only; the rows of
\* every other entity are untouched and every entity has as many status rows
\* after the call as before.
C15_AtMostOneRow ==
  uLog # << >> =>
    LET e == LastCall IN
      \/ e.after = e.before
      \/ /\ OneRowFlipped(e)
         /\ EntityRows(uStreamer, e.after) = EntityRows(uStreamer, e.before)
         /\ \A n \in Names \ SameEntity(uStreamer) :
              /\ Count(e.after, OnlineRow(n)) = Count(e.before, OnlineRow(n))
              /\ Count(e.after, OfflineRow(n)) = Count(e.before, OfflineRow(n))
         /\ Len(e.after) - Len(e.before)
              = IF e.online
                  THEN Len(OnlineRow(uStreamer)) - Len(OfflineRow(uStreamer))
                  ELSE Len(OfflineRow(uStreamer)) - Len(OnlineRow(uStreamer))

\* an online event met two offline rows of its entity and flipped the first
C15_Witness ==
  \E i \in Entries :
    LET e == uLog[i] IN
      /\ e.online
      /\ Count(e.before, OfflineRow(uStreamer)) = 2
      /\ Count(e.after, OfflineRow(uStreamer)) = 1
      /\ Count(e.after, OnlineRow(uStreamer)) = 1
      /\ Index(e.after, OnlineRow(uStreamer))
           < Index(e.after, OfflineRow(uStreamer))

\* C19: after any sequence of online and offline events of one entity,
\* applied one at a time to a document that held exactly one status row of
\* that entity, the row of the entity shows the state of the last event and
\* no row of the entity shows the opposite state.
C19_OneRowConverges ==
  (uLog # << >> /\ OneRow(uStreamer, uDoc0))
    => LET last == uLog[Len(uLog)].online IN
         /\ last => /\ HasOnlineRow(uStreamer, uText)
                    /\ ~HasOfflineRow(uStreamer, uText)
         /\ ~last => /\ HasOfflineRow(uStreamer, uText)
                     /\ ~HasOnlineRow(uStreamer, uText)

====
